---- MODULE Spec2Model ----
(***************************************************************************)
(* KingDom.js (src/kingdom.js): a flat set of helper functions over the    *)
(* browser's document tree.  The file holds two copies of the library (the *)
(* documented copy, lines 1-347, and an older copy, lines 348-548); the    *)
(* variable `variant` says which copy is loaded.  The document tree, its   *)
(* class lists, attributes, contents and listeners are the state; every    *)
(* exported function is one action; the value it returns (or the           *)
(* exception it raises) is recorded in `call`.                             *)
(***************************************************************************)
EXTENDS Integers, Sequences, FiniteSets, TLC

\* ------------------------------------------------------------------ bounds
\* Highest node handle: HEAD, BODY and the fixture nodes are allocated at
\* start, the handles above them are free for createElement / innerHTML.
MaxNodes == 9
\* Longest materialized list handed to each() / checked().
MaxLen == 3

\* --------------------------------------------------------- program objects
NULL == 0      \* null / undefined node reference, also "no parent"
WINDOW == 1    \* the global scope
DOC == 2       \* document
HEAD == 3      \* document.head
BODY == 4      \* document.body
FirstFree == 5 \* first handle after the fixed objects

Elements == HEAD..MaxNodes
Holders == DOC..MaxNodes

VARIABLES
  variant,    \* 1: documented copy (lines 1-347), 2: older copy (348-548)
  nextId,     \* next free node handle (createElement allocates it)
  tag,        \* tag[n]: local name given to createElement ("" = not allocated)
  attr,       \* attr[n]: attribute map, name -> value (NoVal = not set)
  classes,    \* classes[n]: the class list, as a set of class names
  parent,     \* parent[n]: parent node, NULL when detached
  children,   \* children[n]: ordered child items (elements and text nodes)
  value,      \* value[n]: the value state of a form control (see NoValue)
  checked,    \* checked[n]: the checked property of a checkbox
  listeners,  \* set of registered listeners [tgt, ev, cb]
  style,      \* style[n]: the inline style, property -> value ("" = unset)
  expando,    \* expando[n]: names of the methods the library put on n
  call        \* the last library call: name, arguments, result

vars == <<variant, nextId, tag, attr, classes, parent, children, value,
          checked, listeners, style, expando, call>>

dom == <<nextId, tag, attr, classes, parent, children, value, checked,
         style>>
tree == <<parent, children>>

\* ------------------------------------------------------------- JS strings
\* A string is a sequence of units: a run of plain characters, or a piece of
\* markup-significant text (a start tag, an end tag).  textContent keeps the
\* units as character data; innerHTML parses them.
Txt(s) == [k |-> "text", s |-> s, v |-> ""]
Open(t, v) == [k |-> "open", s |-> t, v |-> v]
Close(t) == [k |-> "close", s |-> t, v |-> ""]

NoVal == "<unset>"
AttrNames == {"id", "rel", "href", "src", "title", "value"}
NoAttrs == [a \in AttrNames |-> NoVal]

\* the value of a form control: what was last assigned to it (dirty), or its
\* default
NoValue == [dirty |-> FALSE, s |-> <<>>]

\* the inline style of an element: the properties the model sets
StyleProps == {"display", "color"}
NoStyle == [p \in StyleProps |-> ""]

\* child items: an element, or a text node holding character data
El(n) == [el |-> n, tx |-> <<>>]
TextNode(s) == [el |-> NULL, tx |-> s]

\* --------------------------------------------------------------- targets
\* string | Element: a selector string or a node reference
Sel(by, name) == [kind |-> "sel", by |-> by, name |-> name, ref |-> NULL]
Ref(n) == [kind |-> "ref", by |-> "", name |-> "", ref |-> n]
IsString(target) == target.kind = "sel"

\* ---------------------------------------------------------------- results
RetNode(n) == [kind |-> IF n = NULL THEN "null" ELSE "node", node |-> n,
               list |-> <<>>, bool |-> FALSE]
RetUndef == [kind |-> "undef", node |-> NULL, list |-> <<>>, bool |-> FALSE]
RetList(s) == [kind |-> "list", node |-> NULL, list |-> s, bool |-> FALSE]
RetBool(b) == [kind |-> "bool", node |-> NULL, list |-> <<>>, bool |-> b]

\* The record of one call: its name and arguments, the node its target
\* resolved to (el), what the caller observed of that node just before the
\* call (pre), the value returned, whether an exception was raised, how many
\* diagnostics console.warn printed, and the callbacks / events it ran (log).
Call(op, target, args, el, pre, ret, threw, warned, log) ==
  [op |-> op, target |-> target, args |-> args, el |-> el, pre |-> pre,
   ret |-> ret, threw |-> threw, warned |-> warned, log |-> log]

NoCall == Call("", Ref(NULL), <<>>, NULL, {}, RetUndef, FALSE, 0, <<>>)

\* ------------------------------------------------------------ tree reading
\* The document as one value, so that a function which changes it in several
\* steps (create) can resolve selectors against the intermediate tree.
Dom == [nextId |-> nextId, tag |-> tag, attr |-> attr, classes |-> classes,
        parent |-> parent, children |-> children, listeners |-> listeners]

RECURSIVE ElemsOf(_)
ElemsOf(items) ==
  IF items = <<>> THEN <<>>
  ELSE IF Head(items).el = NULL THEN ElemsOf(Tail(items))
  ELSE <<Head(items).el>> \o ElemsOf(Tail(items))

ElemKidsIn(d, n) == ElemsOf(d.children[n])
ElemKids(n) == ElemKidsIn(Dom, n)

\* n and its descendant elements in document (pre-)order
RECURSIVE PreOrderIn(_, _)
RECURSIVE PreOrderAllIn(_, _)
PreOrderIn(d, n) == <<n>> \o PreOrderAllIn(d, ElemKidsIn(d, n))
PreOrderAllIn(d, ns) ==
  IF ns = <<>> THEN <<>>
  ELSE PreOrderIn(d, Head(ns)) \o PreOrderAllIn(d, Tail(ns))

PreOrder(n) == PreOrderIn(Dom, n)

Range(s) == {s[i] : i \in 1..Len(s)}

MatchesIn(d, n, sel) ==
  CASE sel.by = "id" -> d.attr[n]["id"] = sel.name
    [] sel.by = "class" -> sel.name \in d.classes[n]
    [] sel.by = "tag" -> d.tag[n] = sel.name
    [] OTHER -> FALSE

Matches(n, sel) == MatchesIn(Dom, n, sel)

\* scope.querySelectorAll(sel): the matching descendants of scope, in order
QuerySelectorAllIn(d, sel, scope) ==
  SelectSeq(Tail(PreOrderIn(d, scope)), LAMBDA n : MatchesIn(d, n, sel))

QuerySelectorAll(sel, scope) == QuerySelectorAllIn(Dom, sel, scope)

\* scope.querySelector(sel): the first of them, or null
QuerySelectorIn(d, sel, scope) ==
  LET all == QuerySelectorAllIn(d, sel, scope)
  IN  IF all = <<>> THEN NULL ELSE Head(all)

QuerySelector(sel, scope) == QuerySelectorIn(Dom, sel, scope)

\* ------------------------------------------------------------------- get
\* (faulty variant: searches the whole document whatever the scope, as $ does)
GetElIgnoresScope(target, scope) ==
  IF IsString(target) THEN QuerySelector(target, DOC) ELSE target.ref
\* kingdom.js 22-28 (and 358-364): typeof(target) === 'string' ?
\* parent.querySelector(target) : target
GetEl(target, scope) ==
  IF IsString(target) THEN QuerySelector(target, scope) ELSE target.ref

\* console.warn('Element not found:', target) when !el
GetWarns(target, scope) == IF GetEl(target, scope) = NULL THEN 1 ELSE 0

\* ----------------------------------------------------------- class lists
ClassListAdd(cs, c) == cs \cup {c}
ClassListRemove(cs, c) == cs \ {c}
\* (faulty variant: toggle that only ever adds)
ClassListToggleAddsOnly(cs, c) == cs \cup {c}
ClassListToggle(cs, c) == IF c \in cs THEN cs \ {c} ELSE cs \cup {c}

\* ------------------------------------------------------- inputs (bounded)
Classes == {"d-none", "c"}
Ids == {"x", "y"}
Selectors == {Sel("id", "x"), Sel("class", "c"), Sel("class", "d-none"),
              Sel("id", "nope")}
Pool == FirstFree..(nextId - 1)
Targets == Selectors \cup {Ref(n) : n \in Pool}

\* ------------------------------------------------------------ the fixture
\* <head></head><body><div id="x" class="d-none"><span class="c"></span>
\* </div><div class="c"></div></body>, as the test file sets it up.
FixtureTag(n) ==
  CASE n = DOC -> "#document" [] n = HEAD -> "head" [] n = BODY -> "body"
    [] n = 5 -> "div" [] n = 6 -> "span" [] n = 7 -> "div" [] OTHER -> ""

FixtureParent(n) ==
  CASE n = HEAD -> DOC [] n = BODY -> DOC [] n = 5 -> BODY [] n = 6 -> 5
    [] n = 7 -> BODY [] OTHER -> NULL

FixtureChildren(n) ==
  CASE n = DOC -> <<El(HEAD), El(BODY)>>
    [] n = BODY -> <<El(5), El(7)>>
    [] n = 5 -> <<El(6)>>
    [] OTHER -> <<>>

InitVis ==
  /\ variant \in {1, 2}
  /\ nextId = 8
  /\ tag = [n \in Holders |-> FixtureTag(n)]
  /\ attr = [n \in Holders |->
               IF n = 5 THEN [NoAttrs EXCEPT !["id"] = "x"] ELSE NoAttrs]
  /\ classes = [n \in Holders |->
                  CASE n = 5 -> {"d-none"} [] n = 6 -> {"c"} [] n = 7 -> {"c"}
                    [] OTHER -> {}]
  /\ parent = [n \in Holders |-> FixtureParent(n)]
  /\ children = [n \in Holders |-> FixtureChildren(n)]
  /\ value = [n \in Holders |-> NoValue]
  /\ checked = [n \in Holders |-> FALSE]
  /\ listeners = {}
  /\ style = [n \in Holders |-> NoStyle]
  /\ expando = [n \in Holders |-> {}]
  /\ call = NoCall

\* A call that dereferences null (el.classList of a null el, ...) raises a
\* TypeError: nothing is changed and nothing is returned.
Raise(op, target, args, warned) ==
  /\ call' = Call(op, target, args, NULL, {}, RetUndef, TRUE, warned, <<>>)
  /\ UNCHANGED <<variant, dom, listeners, expando>>

HasClassList(el) == el \in Elements

\* ------------------------------------------------------------ show / hide
\* kingdom.js 131-135 (413-417): force === true removes 'd-none', any other
\* force adds it; nothing is returned.
ShowClasses(cs, force) ==
  IF force = TRUE THEN ClassListRemove(cs, "d-none")
  ELSE ClassListAdd(cs, "d-none")

\* (faulty variant: hide that flips the marker instead of adding it)
HideClassesFlips(cs) == ClassListToggle(cs, "d-none")
\* kingdom.js 142-145 (420-423)
HideClasses(cs) == ClassListAdd(cs, "d-none")

\* force: "omitted" takes the default (true)
ForceArg(f) == IF f = "omitted" THEN TRUE ELSE f = "true"

Show(target, f) ==
  LET el == GetEl(target, DOC)
      w == GetWarns(target, DOC)
  IN  IF ~HasClassList(el) THEN Raise("show", target, <<f>>, w)
      ELSE /\ classes' = [classes EXCEPT ![el] = ShowClasses(@, ForceArg(f))]
           /\ call' = Call("show", target, <<f>>, el, classes[el], RetUndef, FALSE,
                           w, <<>>)
           /\ UNCHANGED <<variant, nextId, tag, attr, tree, value, checked,
                          listeners, style, expando>>

Hide(target) ==
  LET el == GetEl(target, DOC)
      w == GetWarns(target, DOC)
  IN  IF ~HasClassList(el) THEN Raise("hide", target, <<>>, w)
      ELSE /\ classes' = [classes EXCEPT ![el] = HideClasses(@)]
           /\ call' = Call("hide", target, <<>>, el, classes[el], RetUndef, FALSE,
                           w, <<>>)
           /\ UNCHANGED <<variant, nextId, tag, attr, tree, value, checked,
                          listeners, style, expando>>

\* ----------------------------------------------------------------- toggle
\* kingdom.js 66-78 (382-394): className defaults to 'd-none'; force === true
\* adds, force === false removes, anything else flips.
ClassNameArg(c) == IF c = "omitted" THEN "d-none" ELSE c

ToggleClasses(cs, className, f) ==
  IF f = "true" THEN ClassListAdd(cs, className)
  ELSE IF f = "false" THEN ClassListRemove(cs, className)
  ELSE ClassListToggle(cs, className)

Toggle(target, c, f) ==
  LET el == GetEl(target, DOC)
      w == GetWarns(target, DOC)
  IN  IF ~HasClassList(el) THEN Raise("toggle", target, <<c, f>>, w)
      ELSE /\ classes' = [classes EXCEPT
                            ![el] = ToggleClasses(@, ClassNameArg(c), f)]
           /\ call' = Call("toggle", target, <<c, f>>, el, classes[el],
                           RetNode(el), FALSE, w, <<>>)
           /\ UNCHANGED <<variant, nextId, tag, attr, tree, value, checked,
                          listeners, style, expando>>

Forces == {"omitted", "true", "false"}

NextVis ==
  \/ \E t \in Targets, f \in Forces : Show(t, f)
  \/ \E t \in Targets : Hide(t)
  \/ \E t \in Targets, c \in Classes \cup {"omitted"}, f \in Forces :
       Toggle(t, c, f)

SpecVis == InitVis /\ [][NextVis]_vars

\* ------------------------------------------------------------------ C2
OkCall(c, op) == c.op = op /\ ~c.threw

\* One hide / one default show: the marker is set / cleared on the resolved
\* node, and no other class of any node changes.
HideStep ==
  OkCall(call', "hide") =>
    /\ "d-none" \in classes'[call'.el]
    /\ \A n \in Holders : classes'[n] \ {"d-none"} = classes[n] \ {"d-none"}
    /\ \A n \in Holders \ {call'.el} : classes'[n] = classes[n]

ShowStep ==
  (OkCall(call', "show") /\ call'.args = <<"omitted">>) =>
    /\ "d-none" \notin classes'[call'.el]
    /\ \A n \in Holders : classes'[n] \ {"d-none"} = classes[n] \ {"d-none"}
    /\ \A n \in Holders \ {call'.el} : classes'[n] = classes[n]

SameCallAgain == call'.op = call.op /\ call'.target = call.target
                   /\ call'.args = call.args

\* C2 as stated: hide(t) marks the node, show(t) after it unmarks it, and a
\* repeated hide(t) or show(t) changes nothing further, for every resolvable
\* target t (selectors included) -- stated as a property of every step.
C2_HideShowEveryTarget ==
  [][ /\ HideStep
      /\ ShowStep
      /\ (OkCall(call, "hide") /\ OkCall(call', "show")
            /\ call'.target = call.target /\ call'.args = <<"omitted">>)
           => "d-none" \notin classes'[call.el]
      /\ (OkCall(call, "hide") /\ SameCallAgain /\ ~call'.threw)
           => classes' = classes
      /\ (OkCall(call, "show") /\ call.args = <<"omitted">> /\ SameCallAgain
            /\ ~call'.threw)
           => classes' = classes ]_vars

\* C2 (amended): the same, for targets that resolve to the same node on
\* both calls -- a node reference, or a selector whose first match does not
\* depend on the 'd-none' class.  hide marks the node; a following default
\* show of the same node unmarks it; repeating hide or show on the same node
\* changes nothing; no other class is added or removed.
C2_HideShowSameNode ==
  [][ /\ HideStep
      /\ ShowStep
      /\ (OkCall(call, "hide") /\ OkCall(call', "show")
            /\ call'.args = <<"omitted">> /\ call'.el = call.el)
           => "d-none" \notin classes'[call.el]
      /\ (OkCall(call, "hide") /\ OkCall(call', "hide") /\ call'.el = call.el)
           => classes' = classes
      /\ (OkCall(call, "show") /\ call.args = <<"omitted">>
            /\ OkCall(call', "show") /\ call'.args = <<"omitted">>
            /\ call'.el = call.el)
           => classes' = classes ]_vars

\* a default show has just unhidden a node that was hidden and carries
\* another class, which it kept
C2_Witness ==
  /\ OkCall(call, "show") /\ call.args = <<"omitted">>
  /\ "d-none" \in call.pre /\ "c" \in call.pre
  /\ classes[call.el] = {"c"}

\* ------------------------------------------------------------------ C3
ToggleNoForce(c) == OkCall(c, "toggle") /\ c.args[2] = "omitted"

\* a single toggle without force negates membership of the class on the
\* resolved node, changes no other class, and returns the node
ToggleStep ==
  ToggleNoForce(call') =>
    LET el == call'.el
        c == ClassNameArg(call'.args[1])
    IN  /\ (c \in classes'[el]) = (c \notin classes[el])
        /\ classes'[el] \ {c} = classes[el] \ {c}
        /\ \A n \in Holders \ {el} : classes'[n] = classes[n]
        /\ call'.ret = RetNode(el)

\* C3 as stated: for every resolvable target t (selectors included), a second
\* toggle(t, c) without force puts the class set of the node back as it was
\* before the first.
C3_ToggleTwiceEveryTarget ==
  [][ /\ ToggleStep
      /\ (ToggleNoForce(call) /\ SameCallAgain /\ ~call'.threw)
           => classes'[call.el] = call.pre ]_vars

\* C3 (amended): for every class name c and every target that resolves to the
\* same node on both calls (a node reference, or a selector whose first match
\* does not depend on c), toggle(t, c) twice without force returns that node's
\* class set to exactly its original state; a single call negates membership.
C3_ToggleTwiceSameNode ==
  [][ /\ ToggleStep
      /\ (ToggleNoForce(call) /\ ToggleNoForce(call')
            /\ call'.args = call.args /\ call'.el = call.el)
           => classes'[call.el] = call.pre ]_vars

\* toggle('.c', 'c') has just taken class c off the node it resolved to
C3_Witness ==
  /\ ToggleNoForce(call) /\ call.args[1] = "c"
  /\ "c" \in call.pre /\ "c" \notin classes[call.el]

\* ====================================================== exists / get / remove
TreeSelectors == {Sel("id", "x"), Sel("class", "c"), Sel("tag", "div"),
                  Sel("id", "nope")}
TreeTargets == TreeSelectors \cup {Ref(n) : n \in Pool} \cup {Ref(NULL)}
Scopes == {DOC, BODY, FirstFree}

InitTree == InitVis

\* kingdom.js 22-28 (358-364): resolves, warns when nothing is found, returns
\* the node (or null); touches nothing.
Get(target, scope) ==
  /\ call' = Call("get", target, <<scope>>, GetEl(target, scope), {},
                  RetNode(GetEl(target, scope)), FALSE,
                  GetWarns(target, scope), <<>>)
  /\ UNCHANGED <<variant, dom, listeners, expando>>

\* (faulty variant: tests against undefined, which querySelector never returns)
ExistsValNeverFalse(target, scope) == TRUE
\* (faulty variant: a node reference counts only when it lies within scope)
ExistsValWithinScope(target, scope) ==
  IF IsString(target) THEN QuerySelector(target, scope) # NULL
  ELSE target.ref \in Range(PreOrder(scope))
\* kingdom.js 36-39 (366-369): el !== null, no diagnostic
ExistsVal(target, scope) ==
  (IF IsString(target) THEN QuerySelector(target, scope) ELSE target.ref)
    # NULL

Exists(target, scope) ==
  /\ call' = Call("exists", target, <<scope>>, NULL, {},
                  RetBool(ExistsVal(target, scope)), FALSE, 0, <<>>)
  /\ UNCHANGED <<variant, dom, listeners, expando>>

\* Element.remove(): the node leaves its parent's child list (nothing happens
\* when it has no parent); its own subtree stays below it.
RemoveItem(items, n) == SelectSeq(items, LAMBDA it : it.el # n)
ChildrenWithout(n) ==
  [h \in Holders |-> IF h = parent[n] THEN RemoveItem(children[h], n)
                     ELSE children[h]]
ParentWithout(n) == [parent EXCEPT ![n] = NULL]

\* kingdom.js 182-184 (445-447): get(target).remove()
Remove(target) ==
  LET el == GetEl(target, DOC)
      w == GetWarns(target, DOC)
  IN  IF el \notin Elements THEN Raise("remove", target, <<>>, w)
      ELSE /\ children' = ChildrenWithout(el)
           /\ parent' = ParentWithout(el)
           /\ call' = Call("remove", target, <<>>, el, {}, RetUndef, FALSE, w,
                           <<>>)
           /\ UNCHANGED <<variant, nextId, tag, attr, classes, value, checked,
                          listeners, style, expando>>

NextTree ==
  \/ \E t \in TreeTargets, sc \in Scopes : Get(t, sc)
  \/ \E t \in TreeTargets, sc \in Scopes : Exists(t, sc)
  \/ \E t \in TreeTargets : Remove(t)

SpecTree == InitTree /\ [][NextTree]_vars

\* ------------------------------------------------------------------ C4
\* nodes of the document that match a selector, read off the parent links
RECURSIVE Attached(_, _)
Attached(n, fuel) ==
  IF n = DOC THEN TRUE
  ELSE IF n = NULL \/ fuel = 0 THEN FALSE
  ELSE Attached(parent[n], fuel - 1)

MatchesInDoc(sel) ==
  {n \in Elements : tag[n] # "" /\ Attached(n, MaxNodes) /\ Matches(n, sel)}

RemoveBySelector(c) == OkCall(c, "remove") /\ IsString(c.target)

\* what remove(sel) does to the tree: the resolved node loses its parent and
\* leaves that parent's child list; no other node is detached
RemoveStep ==
  RemoveBySelector(call') =>
    LET el == call'.el
    IN  /\ el \in MatchesInDoc(call'.target)
        /\ ExistsVal(call'.target, DOC)
        /\ parent'[el] = NULL
        /\ \A h \in Holders : el \notin Range(ElemsOf(children'[h]))
        /\ \A n \in Holders \ {el} : parent'[n] = parent[n]
        /\ \A h \in Holders :
             ElemsOf(children'[h]) =
               SelectSeq(ElemsOf(children[h]), LAMBDA k : k # el)

\* C4 as stated: for every selector that matches at least one attached node,
\* exists(sel) is true before remove(sel) and false immediately after it, and
\* only the removed node is detached.
C4_ExistsFalseAfterRemove ==
  [][ /\ RemoveStep
      /\ \A t \in TreeSelectors :
           (RemoveBySelector(call') /\ call'.target = t)
             => ~ExistsVal(t, DOC)' ]_vars

\* C4 (amended): remove(sel) detaches the first node matching sel and no
\* other; exists(sel) is true before it, and false immediately after it when
\* sel matched exactly one node of the document.
C4_ExistsFalseAfterRemoveUnique ==
  [][ /\ RemoveStep
      /\ \A t \in TreeSelectors :
           (RemoveBySelector(call') /\ call'.target = t
              /\ Cardinality(MatchesInDoc(t)) = 1)
             => ~ExistsVal(t, DOC)' ]_vars

\* remove('#x') has just detached the only node with id x, which still
\* holds its own child
C4_Witness ==
  /\ RemoveBySelector(call) /\ call.target = Sel("id", "x")
  /\ parent[call.el] = NULL /\ children[call.el] # <<>>
  /\ ~ExistsVal(call.target, DOC)

\* ------------------------------------------------------------------ C9
RECURSIVE IsDescendant(_, _, _)
IsDescendant(n, scope, fuel) ==
  IF n = NULL \/ fuel = 0 \/ parent[n] = NULL THEN FALSE
  ELSE IF parent[n] = scope THEN TRUE
  ELSE IsDescendant(parent[n], scope, fuel - 1)

MatchesWithin(sel, scope) ==
  {n \in Elements :
     tag[n] # "" /\ IsDescendant(n, scope, MaxNodes) /\ Matches(n, sel)}

Position(n, seq) == CHOOSE i \in 1..Len(seq) : seq[i] = n

GetResult ==
  call'.op = "get" =>
    LET t == call'.target
        sc == call'.args[1]
        r == call'.ret
        M == MatchesWithin(t, sc)
        order == PreOrder(sc)
    IN  /\ ~call'.threw
        /\ UNCHANGED <<dom, listeners>>
        /\ ~IsString(t) =>
             /\ r = RetNode(t.ref)
             /\ call'.warned = (IF t.ref = NULL THEN 1 ELSE 0)
        /\ (IsString(t) /\ M = {}) => (r.kind = "null" /\ call'.warned = 1)
        /\ (IsString(t) /\ M # {}) =>
             /\ r.kind = "node" /\ r.node \in M /\ call'.warned = 0
             /\ \A m \in M : Position(r.node, order) <= Position(m, order)

\* C9: get never changes the document; a node reference comes back as it
\* is; a selector gives the first match inside the scope, or null with exactly
\* one diagnostic; the same call repeated on the unchanged tree gives the
\* same result.
C9_GetPureIdempotent ==
  [][ /\ GetResult
      /\ (call.op = "get" /\ SameCallAgain)
           => (call'.ret = call.ret /\ call'.warned = call.warned) ]_vars

\* get('div', document.body) has returned the second div of the fixture,
\* the first one having been removed from the document
C9_Witness ==
  /\ call.op = "get" /\ call.target = Sel("tag", "div")
  /\ call.args = <<BODY>> /\ call.ret = RetNode(7)
  /\ parent[FirstFree] = NULL

\* ============================================================ create / append
\* ---- the host's tree primitives, on a document value d

IsAllocated(d, n) == n \in Elements /\ d.tag[n] # ""

\* document.createElement(tag): the next free handle becomes a detached,
\* empty element
CreateElement(d, t) ==
  [d EXCEPT !.nextId = @ + 1, !.tag[d.nextId] = t]

SetAttribute(d, el, k, s) == [d EXCEPT !.attr[el][k] = s]

AddEventListener(d, tgt, ev, cb) ==
  [d EXCEPT !.listeners = @ \cup {[tgt |-> tgt, ev |-> ev, cb |-> cb]}]

\* the element children of el lose their parent (they were replaced)
OrphanKids(d, el) ==
  [n \in Holders |->
     IF n \in Range(ElemKidsIn(d, el)) THEN NULL ELSE d.parent[n]]

\* el.textContent = s: one text node holding s as character data (none for
\* the empty string); no markup is interpreted
SetTextContent(d, el, s) ==
  [d EXCEPT !.parent = OrphanKids(d, el),
            !.children[el] = IF s = <<>> THEN <<>> ELSE <<TextNode(s)>>]

\* Fragment parsing of a markup string, one level deep: a start tag opens an
\* element (closing one that is open), text goes to the open element or to a
\* text node, an end tag closes the open element, a stray end tag is dropped,
\* the end of the string closes what is open.
Frag(t, v, tx) == [tag |-> t, val |-> v, tx |-> tx]

RECURSIVE ParseFrom(_, _, _, _, _)
ParseFrom(units, open, t, v, cur) ==
  LET flush == IF open THEN <<Frag(t, v, cur)>>
               ELSE IF cur = <<>> THEN <<>> ELSE <<Frag("", "", cur)>>
  IN  IF units = <<>> THEN flush
      ELSE LET u == Head(units)
               rest == Tail(units)
           IN  CASE u.k = "text" -> ParseFrom(rest, open, t, v, Append(cur, u))
                 [] u.k = "open" ->
                      flush \o ParseFrom(rest, TRUE, u.s, u.v, <<>>)
                 [] u.k = "close" ->
                      IF open /\ u.s = t
                      THEN flush \o ParseFrom(rest, FALSE, "", "", <<>>)
                      ELSE ParseFrom(rest, open, t, v, cur)

ParseHTML(units) == ParseFrom(units, FALSE, "", "", <<>>)

RECURSIVE CountElems(_)
CountElems(frags) ==
  IF frags = <<>> THEN 0
  ELSE (IF Head(frags).tag = "" THEN 0 ELSE 1) + CountElems(Tail(frags))

\* number of elements el.innerHTML = s creates
ElemsIn(s) == CountElems(ParseHTML(s))

\* the fragment's nodes become the children of el, elements taking fresh
\* handles in order
RECURSIVE Adopt(_, _, _)
Adopt(d, el, frags) ==
  IF frags = <<>> THEN d
  ELSE LET f == Head(frags)
       IN  IF f.tag = ""
           THEN Adopt([d EXCEPT !.children[el] = Append(@, TextNode(f.tx))],
                      el, Tail(frags))
           ELSE LET k == d.nextId
                    d1 == CreateElement(d, f.tag)
                    d2 == [d1 EXCEPT
                             !.parent[k] = el,
                             !.children[el] = Append(@, El(k)),
                             !.children[k] =
                               IF f.tx = <<>> THEN <<>> ELSE <<TextNode(f.tx)>>,
                             !.attr[k] =
                               IF f.val = "" THEN NoAttrs
                               ELSE [NoAttrs EXCEPT !["value"] = f.val]]
                IN  Adopt(d2, el, Tail(frags))

\* el.innerHTML = s: the old children go, the parsed fragment comes
SetInnerHTML(d, el, s) ==
  Adopt([d EXCEPT !.parent = OrphanKids(d, el), !.children[el] = <<>>],
        el, ParseHTML(s))

\* node.remove() / the removal half of a move
Unlink(d, n) ==
  IF d.parent[n] = NULL THEN d
  ELSE [d EXCEPT !.children[d.parent[n]] = RemoveItem(@, n),
                 !.parent[n] = NULL]

RECURSIVE IsInclusiveAncestorIn(_, _, _, _)
IsInclusiveAncestorIn(d, a, n, fuel) ==
  IF n = a THEN TRUE
  ELSE IF n = NULL \/ n = DOC \/ fuel = 0 THEN FALSE
  ELSE IsInclusiveAncestorIn(d, a, d.parent[n], fuel - 1)

InsertAt(items, i, it) ==
  SubSeq(items, 1, i - 1) \o <<it>> \o SubSeq(items, i, Len(items))

IndexOfEl(items, n) == CHOOSE i \in 1..Len(items) : items[i].el = n

\* par.insertBefore(n, items[i]) (append when i is past the end), n moved
\* from where it was
InsertChild(d, par, i, n) ==
  LET d1 == Unlink(d, n)
  IN  [d1 EXCEPT !.children[par] = InsertAt(@, i, El(n)), !.parent[n] = par]

\* el.appendChild(child)
AppendChild(d, el, child) ==
  InsertChild(d, el, Len(Unlink(d, child).children[el]) + 1, child)

Positions == {"beforebegin", "afterbegin", "beforeend", "afterend"}

\* where target.insertAdjacentElement(position, n) puts n: the new parent
AdjacentParent(d, target, position) ==
  IF position \in {"beforebegin", "afterend"} THEN d.parent[target]
  ELSE target

\* SyntaxError for an unknown position, HierarchyRequestError when n would
\* become a child of its own descendant
InsertAdjacentThrows(d, target, position, n) ==
  \/ position \notin Positions
  \/ /\ AdjacentParent(d, target, position) # NULL
     /\ IsInclusiveAncestorIn(d, n, AdjacentParent(d, target, position),
                              MaxNodes)

InsertAdjacentElement(d, target, position, n) ==
  LET par == AdjacentParent(d, target, position)
      d1 == Unlink(d, n)
  IN  IF par = NULL THEN d
      ELSE CASE position = "beforebegin" ->
                  InsertChild(d, par, IndexOfEl(d1.children[par], target), n)
             [] position = "afterend" ->
                  InsertChild(d, par, IndexOfEl(d1.children[par], target) + 1,
                              n)
             [] position = "afterbegin" -> InsertChild(d, par, 1, n)
             [] OTHER ->
                  InsertChild(d, par, Len(d1.children[par]) + 1, n)

\* ---- attribute maps: the entries of the object, in key order
Lit(k, s) == [k |-> k, kind |-> "str", s |-> s, u |-> <<>>, n |-> NULL]
TextOf(u) == [k |-> "text", kind |-> "str", s |-> "", u |-> u, n |-> NULL]
HtmlOf(u) == [k |-> "html", kind |-> "str", s |-> "", u |-> u, n |-> NULL]
ChildOf(n) == [k |-> "child", kind |-> "node", s |-> "", u |-> <<>>, n |-> n]
Handler(k, f) == [k |-> k, kind |-> "fn", s |-> f, u |-> <<>>, n |-> NULL]

\* attr.startsWith('on') and attr.replace(/^on/, '') on the keys in use
StartsWithOn(k) == k \in {"onclick", "onload"}
StripOn(k) ==
  CASE k = "onclick" -> "click" [] k = "onload" -> "load" [] OTHER -> k

\* kingdom.js 196-212 (451-467): one entry of the map applied to el
ApplyAttribute(d, el, a) ==
  IF StartsWithOn(a.k) \/ a.kind = "fn"
  THEN AddEventListener(d, el, StripOn(a.k), a.s)
  ELSE IF a.k = "text" THEN SetTextContent(d, el, a.u)
  ELSE IF a.k = "html" THEN SetInnerHTML(d, el, a.u)
  ELSE IF a.k = "child" THEN AppendChild(d, el, a.n)
  ELSE SetAttribute(d, el, a.k, a.s)

RECURSIVE ApplyAttributes(_, _, _)
ApplyAttributes(d, el, attributes) ==
  IF attributes = <<>> THEN d
  ELSE ApplyAttributes(ApplyAttribute(d, el, Head(attributes)), el,
                       Tail(attributes))

GetElIn(d, target, scope) ==
  IF IsString(target) THEN QuerySelectorIn(d, target, scope) ELSE target.ref

\* (faulty variant: a default of 'afterbegin')
PositionArgFirst(p) == IF p = "omitted" THEN "afterbegin" ELSE p
\* position = 'beforeend' when the argument is left out
PositionArg(p) == IF p = "omitted" THEN "beforeend" ELSE p

\* kingdom.js 228-237 (484-493) with an element as code: the outcome of
\* append(target, el, position) on d
AppendResult(d, target, el, position) ==
  LET t == GetElIn(d, target, DOC)
      w == IF t = NULL THEN 1 ELSE 0
  IN  IF t \notin Elements
        \/ InsertAdjacentThrows(d, t, PositionArg(position), el)
      THEN [d |-> d, threw |-> TRUE, warned |-> w, target |-> t]
      ELSE [d |-> InsertAdjacentElement(d, t, PositionArg(position), el),
            threw |-> FALSE, warned |-> w, target |-> t]

\* `if (parent)`: a missing (undefined / null) parent skips the insertion
Truthy(target) == IsString(target) \/ target.ref # NULL

\* kingdom.js 194-219 (449-482): the outcome of create(...) on d
CreateResult(d, t, attributes, par, position) ==
  LET el == d.nextId
      d2 == ApplyAttributes(CreateElement(d, t), el, attributes)
      a == AppendResult(d2, par, el, position)
  IN  IF Truthy(par)
      THEN [d |-> a.d, el |-> el, threw |-> a.threw, warned |-> a.warned,
            parent |-> a.target]
      ELSE [d |-> d2, el |-> el, threw |-> FALSE, warned |-> 0,
            parent |-> NULL]

\* nodes a call to create allocates: the element and what its html parses to
RECURSIVE HtmlElems(_)
HtmlElems(attributes) ==
  IF attributes = <<>> THEN 0
  ELSE (IF Head(attributes).k = "html" /\ Head(attributes).kind = "str"
        THEN ElemsIn(Head(attributes).u) ELSE 0) + HtmlElems(Tail(attributes))

HasRoom(k) == nextId + k - 1 <= MaxNodes

\* the document variables take the values of d
Becomes(d) ==
  /\ nextId' = d.nextId /\ tag' = d.tag /\ attr' = d.attr
  /\ classes' = d.classes /\ parent' = d.parent /\ children' = d.children
  /\ listeners' = d.listeners

Create(t, attributes, par, position) ==
  /\ HasRoom(1 + HtmlElems(attributes))
  /\ LET r == CreateResult(Dom, t, attributes, par, position)
     IN  /\ Becomes(r.d)
         /\ call' = Call("create", par, <<t, attributes, position>>,
                         r.parent, {},
                         IF r.threw THEN RetUndef ELSE RetNode(r.el),
                         r.threw, r.warned, <<>>)
  /\ UNCHANGED <<variant, value, checked, style, expando>>

\* ---- inputs
Hi == <<Txt("hi")>>
BoldX == <<Open("b", ""), Txt("X"), Close("b")>>

AttributeMaps ==
  { <<>>,
    <<Lit("id", "y"), TextOf(Hi)>>,
    <<TextOf(BoldX), Lit("title", "t")>>,
    <<TextOf(Hi), HtmlOf(BoldX)>>,
    <<ChildOf(6)>>,
    <<Lit("id", "x"), ChildOf(7)>>,
    <<Handler("onclick", "f")>> }

Parents == {Ref(NULL), Ref(FirstFree), Ref(7), Sel("class", "c"),
            Sel("id", "nope")}

PositionArgs == {"omitted", "beforebegin", "afterbegin"}

InitCreate == InitVis

NextCreate ==
  \E m \in AttributeMaps, par \in Parents, pos \in PositionArgs :
    /\ (par = Ref(NULL) => pos = "omitted")
    /\ Create("div", m, par, pos)

SpecCreate == InitCreate /\ [][NextCreate]_vars

\* ------------------------------------------------------------------ C6
\* node.textContent: the character data below n, in order
RECURSIVE TextContentIn(_, _)
RECURSIVE TextOfItems(_, _)
TextContentIn(d, n) == TextOfItems(d, d.children[n])
TextOfItems(d, items) ==
  IF items = <<>> THEN <<>>
  ELSE (IF Head(items).el = NULL THEN Head(items).tx
        ELSE TextContentIn(d, Head(items).el)) \o TextOfItems(d, Tail(items))

IsLiteral(a) ==
  a.kind = "str" /\ ~StartsWithOn(a.k) /\ a.k \notin {"text", "html", "child"}

\* what the claim says of one create call that returned
CreateAsClaimed ==
  LET el == call'.ret.node
      t == call'.args[1]
      m == call'.args[2]
      pos == call'.args[3]
      par == call'.target
  IN  /\ tag[el] = "" /\ tag'[el] = t /\ nextId' > el
      /\ \A i \in 1..Len(m) :
           /\ IsLiteral(m[i]) => attr'[el][m[i].k] = m[i].s
           /\ (m[i].k = "text" /\ m[i].kind = "str")
                => TextContentIn(Dom', el) = m[i].u
      /\ ~Truthy(par) =>
           /\ parent'[el] = NULL
           /\ \A n \in Holders :
                (n = DOC \/ tag[n] # "")
                  => (parent'[n] = parent[n] /\ children'[n] = children[n])
      /\ (Truthy(par) /\ pos = "omitted") =>
           /\ parent'[el] = call'.el
           /\ children'[call'.el] = Append(children[call'.el], El(el))

\* C6 as stated: every create call that returns gives a new node with the
\* map's literal attributes and text; with no parent argument the node is
\* detached and the document tree unchanged; with a parent and no position the
\* node is the last child of the resolved parent, after its previous children.
C6_CreateAnyMap ==
  [][ OkCall(call', "create") => CreateAsClaimed ]_vars

NoHtmlNoChild(m) == \A i \in 1..Len(m) : m[i].k \notin {"html", "child"}

\* C6 (amended): the same for an attribute map without html and child keys
\* (literal attributes, text and listeners only).
C6_CreatePlainMap ==
  [][ (OkCall(call', "create") /\ NoHtmlNoChild(call'.args[2]))
        => CreateAsClaimed ]_vars

\* create('div', {id:'y', text:'hi'}, parent) has put the new node after the
\* span that the parent already held
C6_Witness ==
  /\ OkCall(call, "create")
  /\ call.args = <<"div", <<Lit("id", "y"), TextOf(Hi)>>, "omitted">>
  /\ call.target = Ref(FirstFree)
  /\ children[FirstFree] = <<El(6), El(call.ret.node)>>
  /\ attr[call.ret.node]["id"] = "y"
  /\ TextContentIn(Dom, call.ret.node) = Hi

\* ======================================================================= load
\* document.getElementById(id): the first element of the document, in tree
\* order, whose id attribute is id
GetElementByIdIn(d, id) ==
  LET hits == SelectSeq(Tail(PreOrderIn(d, DOC)),
                        LAMBDA n : d.attr[n]["id"] = id)
  IN  IF hits = <<>> THEN NULL ELSE Head(hits)

\* document.head: the head element while it is a child of the root
DocumentHead(d) == IF d.parent[HEAD] = DOC THEN HEAD ELSE NULL

\* props: {} or {id: ...}; NoVal stands for "no id key"
PropsOf(id) == IF id = NoVal THEN <<>> ELSE <<Lit("id", id)>>

\* src.endsWith('.css') on the sources in use
Sources == {"a.css", "b.js", "c.css?v=1"}
EndsWithCss(src) == src \in {"a.css"}

\* (faulty variant: the lookup of an existing node left out)
LoadFindsNothing(d, id) == NULL
\* kingdom.js 260-263 (505-508): props.id && (el = getElementById(props.id))
LoadFinds(d, id) == IF id # NoVal THEN GetElementByIdIn(d, id) ELSE NULL

\* kingdom.js 265-277 (514-527): the attribute map handed to create
LoadAttributes(src, id) ==
  IF EndsWithCss(src)
  THEN <<Lit("rel", "stylesheet"), Lit("href", src)>> \o PropsOf(id)
  ELSE <<Lit("src", src)>> \o PropsOf(id)

LoadTag(src) == IF EndsWithCss(src) THEN "link" ELSE "script"

\* kingdom.js 259-278 (503-528), parent left at its default document.head
Load(src, id) ==
  LET found == LoadFinds(Dom, id)
      r == CreateResult(Dom, LoadTag(src), LoadAttributes(src, id),
                        Ref(DocumentHead(Dom)), "omitted")
  IN  IF found # NULL
      THEN /\ call' = Call("load", Ref(NULL), <<src, id>>, found, {found},
                           RetNode(found), FALSE, 0, <<>>)
           /\ UNCHANGED <<variant, dom, listeners, expando>>
      ELSE /\ HasRoom(1)
           /\ Becomes(r.d)
           /\ call' = Call("load", Ref(NULL), <<src, id>>, r.parent, {},
                           IF r.threw THEN RetUndef ELSE RetNode(r.el),
                           r.threw, r.warned, <<>>)
           /\ UNCHANGED <<variant, value, checked, style, expando>>

LoadIds == {NoVal, "x", "y", "z"}

InitLoad == InitVis

NextLoad == \E src \in Sources, id \in LoadIds : Load(src, id)

SpecLoad == InitLoad /\ [][NextLoad]_vars

\* ------------------------------------------------------------------ C1
\* the nodes of the document that carry id x
WithId(x) ==
  {n \in Elements : tag[n] # "" /\ Attached(n, MaxNodes) /\ attr[n]["id"] = x}

LoadWithId(c, x) == OkCall(c, "load") /\ c.args[2] = x

\* C1: under load calls alone the document never holds two nodes with the
\* same id; a load with id x returns the node of the document that carries x,
\* creating and inserting it only when there was none; that node stays, so
\* every later load with id x returns the node the first one returned.
C1_LoadIdempotent ==
  [][ \A x \in LoadIds \ {NoVal} :
        /\ Cardinality(WithId(x)') <= 1
        /\ WithId(x) \subseteq WithId(x)'
        /\ LoadWithId(call', x) =>
             /\ WithId(x)' = {call'.ret.node}
             /\ WithId(x) # {} => UNCHANGED <<dom, listeners>>
        /\ (LoadWithId(call, x) /\ LoadWithId(call', x))
             => call'.ret = call.ret ]_vars

\* a second load with id 'y' has returned the link that an earlier load
\* created under the head, and nothing else was created
C1_Witness ==
  /\ LoadWithId(call, "y") /\ call.pre = {call.ret.node}
  /\ call.ret.node = 8 /\ parent[8] = HEAD /\ tag[8] = "link"
  /\ nextId = 9

\* ===================================================================== update
\* el.tagName: the upper-cased local name
TagName(t) ==
  CASE t = "input" -> "INPUT" [] t = "textarea" -> "TEXTAREA"
    [] t = "select" -> "SELECT" [] t = "div" -> "DIV" [] t = "span" -> "SPAN"
    [] t = "b" -> "B" [] t = "option" -> "OPTION" [] OTHER -> t

\* content: a string, or an array of bare values and {value, label} objects
Str(u) == [isArray |-> FALSE, u |-> u, items |-> <<>>]
Arr(items) == [isArray |-> TRUE, u |-> <<>>, items |-> items]
Bare(v) == [obj |-> FALSE, value |-> v, label |-> v]
Obj(v, l) == [obj |-> TRUE, value |-> v, label |-> l]

\* kingdom.js 91-96: the array as a string of <option> elements
RECURSIVE OptionsMarkup(_)
OptionsMarkup(items) ==
  IF items = <<>> THEN <<>>
  ELSE <<Open("option", Head(items).value), Txt(Head(items).label),
         Close("option")>> \o OptionsMarkup(Tail(items))

\* String(array): the items joined by commas, an object as [object Object]
RECURSIVE JoinItems(_)
JoinItems(items) ==
  IF items = <<>> THEN <<>>
  ELSE <<Txt(IF Head(items).obj THEN "[object Object]"
             ELSE Head(items).value)>>
       \o (IF Tail(items) = <<>> THEN <<>> ELSE <<Txt(",")>>)
       \o JoinItems(Tail(items))

\* the string a DOM setter makes of content
ToStr(content) ==
  IF content.isArray THEN JoinItems(content.items) ELSE content.u

\* kingdom.js 90-97: only the documented copy turns an array into options
Coerce(v, t, content) ==
  IF v = 1 /\ TagName(t) = "SELECT" /\ content.isArray
  THEN Str(OptionsMarkup(content.items))
  ELSE content

\* (faulty variant: the input / text-area branch left out, as in the older copy)
TakesValueNever(v, t) == FALSE
\* kingdom.js 99: only the documented copy assigns to el.value
TakesValue(v, t) == v = 1 /\ TagName(t) \in {"INPUT", "TEXTAREA"}

\* type = 'html' when the argument is left out
TypeArg(ty) == IF ty = "omitted" THEN "html" ELSE ty

\* elements the call will allocate
UpdateElems(v, t, content, ty) ==
  IF ~TakesValue(v, t) /\ TypeArg(ty) = "html"
  THEN ElemsIn(ToStr(Coerce(v, t, content))) ELSE 0

\* kingdom.js 87-109 (variant 1) and 396-404 (variant 2)
Update(target, content, ty) ==
  LET el == GetEl(target, DOC)
      w == GetWarns(target, DOC)
  IN  IF el \notin Elements THEN Raise("update", target, <<content, ty>>, w)
      ELSE LET c == ToStr(Coerce(variant, tag[el], content))
               d == IF TakesValue(variant, tag[el]) THEN Dom
                    ELSE IF TypeArg(ty) = "html" THEN SetInnerHTML(Dom, el, c)
                    ELSE IF TypeArg(ty) = "text" THEN SetTextContent(Dom, el, c)
                    ELSE Dom
           IN  /\ HasRoom(UpdateElems(variant, tag[el], content, ty))
               /\ Becomes(d)
               /\ value' = IF TakesValue(variant, tag[el])
                           THEN [value EXCEPT ![el] = [dirty |-> TRUE, s |-> c]]
                           ELSE value
               /\ call' = Call("update", target, <<content, ty>>, el, {},
                               RetNode(el), FALSE, w, <<>>)
               /\ UNCHANGED <<variant, checked, style, expando>>

\* el.value as read back: what was assigned, else the default (a text-area's
\* default is its text content)
ValueIn(d, val, n) ==
  IF val[n].dirty \/ d.tag[n] # "textarea" THEN val[n].s
  ELSE TextContentIn(d, n)

Contents == {Str(BoldX), Arr(<<Bare("1"), Obj("2", "Two")>>)}
TypeArgs == {"omitted", "text", "md"}
UpdateTargets == {Sel("id", "x"), Sel("class", "c"), Sel("id", "nope"),
                  Ref(7)}

\* the fixture with a form control as its last element: <div id="x"
\* class="d-none"><span class="c"></span></div> and an <input class="c"
\* value="initial">, a <textarea class="c"> or a <select class="c">
InitUpdate ==
  /\ variant \in {1, 2}
  /\ nextId = 8
  /\ \E t \in {"input", "textarea", "select"} :
       tag = [n \in Holders |-> IF n = 7 THEN t ELSE FixtureTag(n)]
  /\ attr = [n \in Holders |->
               IF n = 5 THEN [NoAttrs EXCEPT !["id"] = "x"] ELSE NoAttrs]
  /\ classes = [n \in Holders |->
                  CASE n = 5 -> {"d-none"} [] n = 6 -> {"c"} [] n = 7 -> {"c"}
                    [] OTHER -> {}]
  /\ parent = [n \in Holders |-> FixtureParent(n)]
  /\ children = [n \in Holders |-> FixtureChildren(n)]
  /\ value = [n \in Holders |->
                IF n = 7 THEN [dirty |-> FALSE, s |-> <<Txt("initial")>>]
                ELSE NoValue]
  /\ checked = [n \in Holders |-> FALSE]
  /\ listeners = {}
  /\ style = [n \in Holders |-> NoStyle]
  /\ expando = [n \in Holders |-> {}]
  /\ call = NoCall

NextUpdate ==
  \E t \in UpdateTargets, c \in Contents, ty \in TypeArgs : Update(t, c, ty)

SpecUpdate == InitUpdate /\ [][NextUpdate]_vars

\* ------------------------------------------------------------------ C5
\* the text units of a markup string: what remains when the tags are parsed
TextUnits(u) == SelectSeq(u, LAMBDA x : x.k = "text")

IsFormControl(n) == TagName(tag[n]) \in {"INPUT", "TEXTAREA"}

\* what the claim says of one update call on a resolved node
UpdateAsClaimed ==
  LET el == call'.el
      content == call'.args[1]
      ty == TypeArg(call'.args[2])
  IN  /\ call'.ret = RetNode(el)
      /\ IsFormControl(el) =>
           /\ value'[el] = [dirty |-> TRUE, s |-> ToStr(content)]
           /\ children' = children /\ parent' = parent
      /\ (~IsFormControl(el) /\ ty = "html" /\ ~content.isArray) =>
           /\ Len(ElemKidsIn(Dom', el)) = ElemsIn(content.u)
           /\ Range(ElemKidsIn(Dom', el)) \cap Range(ElemKids(el)) = {}
           /\ TextContentIn(Dom', el) = TextUnits(content.u)
      /\ (~IsFormControl(el) /\ ty = "text" /\ ~content.isArray) =>
           /\ TextContentIn(Dom', el) = content.u
           /\ ElemKidsIn(Dom', el) = <<>>
           /\ nextId' = nextId

\* C5: update on an input or text-area assigns content to the node's value
\* and leaves its markup/text content alone whatever type is; otherwise type
\* 'html' replaces the node's subtree by the parsed content and type 'text'
\* makes content the node's text, read back exactly, with no child element;
\* the resolved node is returned in every case.
C5_UpdateBranches ==
  [][ OkCall(call', "update") => UpdateAsClaimed ]_vars

\* the same of the documented copy alone (kingdom.js 87-109)
C5_UpdateBranchesDocumentedCopy ==
  [][ (OkCall(call', "update") /\ variant = 1) => UpdateAsClaimed ]_vars

\* update(input, '<b>X</b>') of the documented copy has set the value and
\* created nothing
C5_Witness ==
  /\ OkCall(call, "update") /\ variant = 1 /\ tag[call.el] = "input"
  /\ call.args = <<Str(BoldX), "omitted">>
  /\ value[call.el] = [dirty |-> TRUE, s |-> BoldX]
  /\ children[call.el] = <<>> /\ nextId = 8

\* ============================================================= each / checked
\* the first argument of each: an array, a NodeList, or a selector string
AsArray(l) == [kind |-> "array", list |-> l, sel |-> Sel("", "")]
AsNodeList(l) == [kind |-> "nodelist", list |-> l, sel |-> Sel("", "")]
AsSelector(sel) == [kind |-> "sel", list |-> <<>>, sel |-> sel]

\* (faulty variant: the array / NodeList test left out, as in the older copy)
TakenAsListNever(v, target) == FALSE
\* kingdom.js 118: Array.isArray(target) || target instanceof NodeList, in
\* the documented copy only (407 hands every target to querySelectorAll)
TakenAsList(v, target) == v = 1 /\ target.kind \in {"array", "nodelist"}

\* document.querySelectorAll(String(target)): a list of nodes prints as
\* "[object HTML...Element],..." (or ""), which is no selector: SyntaxError
EachThrows(v, target) == ~TakenAsList(v, target) /\ target.kind # "sel"

EachEls(v, target) ==
  IF TakenAsList(v, target) THEN target.list
  ELSE QuerySelectorAll(target.sel, DOC)

\* els.forEach(cb): cb(node, index) for every member, in order
ForEach(els) == [i \in 1..Len(els) |-> [el |-> els[i], index |-> i - 1]]

\* kingdom.js 117-123 (406-410); cb = "" stands for a missing callback
Each(target, cb) ==
  /\ call' =
       IF EachThrows(variant, target)
       THEN Call("each", Ref(NULL), <<target, cb>>, NULL, {}, RetUndef, TRUE,
                 0, <<>>)
       ELSE Call("each", Ref(NULL), <<target, cb>>, NULL, {},
                 RetList(EachEls(variant, target)), FALSE, 0,
                 IF cb # "" THEN ForEach(EachEls(variant, target)) ELSE <<>>)
  /\ UNCHANGED <<variant, dom, listeners, expando>>

\* (faulty variant: the filter on the checked state left out)
CheckedValuesOfAll(els) == [i \in 1..Len(els) |-> ValueIn(Dom, value, els[i])]
\* kingdom.js 307-311: Array.from(els).filter(c => c.checked).map(c => c.value)
CheckedValues(els) ==
  LET on == SelectSeq(els, LAMBDA n : checked[n])
  IN  [i \in 1..Len(on) |-> ValueIn(Dom, value, on[i])]

\* checked exists in the documented copy only (kingdom.js 307-311, 345)
Checked(els) ==
  /\ variant = 1
  /\ call' = Call("checked", Ref(NULL), <<els>>, NULL, {},
                  RetList(CheckedValues(els)), FALSE, 0, <<>>)
  /\ UNCHANGED <<variant, dom, listeners, expando>>

\* ---- inputs
RECURSIVE SeqsUpTo(_, _)
SeqsUpTo(S, n) ==
  IF n = 0 THEN {<<>>}
  ELSE LET shorter == SeqsUpTo(S, n - 1)
       IN  shorter \cup {Append(q, x) : q \in shorter, x \in S}

NodeLists == SeqsUpTo(Pool, MaxLen)
CollSelectors == {Sel("class", "c"), Sel("tag", "input"), Sel("id", "nope")}
EachTargets ==
  {AsArray(l) : l \in NodeLists}
    \cup {AsNodeList(QuerySelectorAll(sel, DOC)) : sel \in CollSelectors}
    \cup {AsSelector(sel) : sel \in CollSelectors}

\* <input type="checkbox" class="c" value="1">, ... value="2", and a third
\* without the class and with value="3"; each checked or not
InitColl ==
  /\ variant \in {1, 2}
  /\ nextId = 8
  /\ tag = [n \in Holders |->
              IF n \in 5..7 THEN "input" ELSE FixtureTag(n)]
  /\ attr = [n \in Holders |-> NoAttrs]
  /\ classes = [n \in Holders |-> IF n \in 5..6 THEN {"c"} ELSE {}]
  /\ parent = [n \in Holders |->
                 IF n \in 5..7 THEN BODY ELSE FixtureParent(n)]
  /\ children = [n \in Holders |->
                   CASE n = DOC -> <<El(HEAD), El(BODY)>>
                     [] n = BODY -> <<El(5), El(6), El(7)>>
                     [] OTHER -> <<>>]
  /\ value = [n \in Holders |->
                CASE n = 5 -> [dirty |-> FALSE, s |-> <<Txt("1")>>]
                  [] n = 6 -> [dirty |-> FALSE, s |-> <<Txt("2")>>]
                  [] n = 7 -> [dirty |-> FALSE, s |-> <<Txt("3")>>]
                  [] OTHER -> NoValue]
  /\ checked \in {f \in [Holders -> BOOLEAN] : \A n \in Holders \ (5..7) : ~f[n]}
  /\ listeners = {}
  /\ style = [n \in Holders |-> NoStyle]
  /\ expando = [n \in Holders |-> {}]
  /\ call = NoCall

NextColl ==
  \/ \E t \in EachTargets, cb \in {"f", ""} : Each(t, cb)
  \/ \E els \in NodeLists : Checked(els)

SpecColl == InitColl /\ [][NextColl]_vars

\* ------------------------------------------------------------------ C7
EachOf(c, kinds) == c.op = "each" /\ c.args[1].kind \in kinds /\ c.args[2] # ""

\* what the claim says of one each call with a callback
EachAsClaimed ==
  LET target == call'.args[1]
      els == IF target.kind = "sel"
             THEN SelectSeq(Tail(PreOrder(DOC)),
                            LAMBDA n : Matches(n, target.sel))
             ELSE target.list
  IN  /\ ~call'.threw
      /\ Len(call'.log) = Len(els)
      /\ \A i \in 1..Len(els) :
           call'.log[i] = [el |-> els[i], index |-> i - 1]
      /\ call'.ret = RetList(els)
      /\ UNCHANGED <<dom, listeners>>

\* C7: each(list, cb) calls cb once per member, the i-th call with the i-th
\* node and index i (from 0), and returns the list; each(selector, cb) does
\* so over the matching nodes in document order.
C7_EachVisitsInOrder ==
  [][ EachOf(call', {"array", "nodelist", "sel"}) => EachAsClaimed ]_vars

\* the same of the documented copy alone (kingdom.js 117-123)
C7_EachVisitsInOrderDocumentedCopy ==
  [][ (EachOf(call', {"array", "nodelist", "sel"}) /\ variant = 1)
        => EachAsClaimed ]_vars

\* each([n7, n5, n7], cb) of the documented copy has made three calls
C7_Witness ==
  /\ EachOf(call, {"array"}) /\ ~call.threw /\ variant = 1
  /\ call.args[1].list = <<7, 5, 7>>
  /\ call.log = <<[el |-> 7, index |-> 0], [el |-> 5, index |-> 1],
                  [el |-> 7, index |-> 2]>>

\* ------------------------------------------------------------------ C8
\* the members of els that are checked, by position
CheckedAt(els) == {i \in 1..Len(els) : checked[els[i]]}

\* the position in els of the k-th checked member
KthChecked(els, k) ==
  CHOOSE i \in CheckedAt(els) :
    Cardinality({j \in CheckedAt(els) : j <= i}) = k

\* C8: checked(collection) returns the value of every checked member and of
\* no other, in collection order, and changes nothing.
C8_CheckedValuesInOrder ==
  [][ call'.op = "checked" =>
        LET els == call'.args[1]
            got == call'.ret.list
        IN  /\ ~call'.threw /\ call'.ret.kind = "list"
            /\ Len(got) = Cardinality(CheckedAt(els))
            /\ \A k \in 1..Len(got) :
                 got[k] = value[els[KthChecked(els, k)]].s
            /\ UNCHANGED <<dom, listeners>> ]_vars

\* states [true, false, true] with values '1', '2', '3' gave ['1', '3']
C8_Witness ==
  /\ call.op = "checked" /\ call.args[1] = <<5, 6, 7>>
  /\ checked[5] /\ ~checked[6] /\ checked[7]
  /\ call.ret.list = << <<Txt("1")>>, <<Txt("3")>> >>

\* ============================================================ on / dispatch
\* a call made with the target left out
Omitted == [kind |-> "none", by |-> "", name |-> "", ref |-> NULL]

Events == {"ping", "pong"}
Callbacks == {"f"}
EventTargets == Selectors \cup {Ref(n) : n \in Pool} \cup {Omitted}

\* (faulty variant: the arguments never shift)
ShiftedNever(target) == target
\* kingdom.js 49-53 / 245-248: with the last argument missing the arguments
\* shift and the target is window
Shifted(target) == IF target = Omitted THEN Ref(WINDOW) ELSE target

\* kingdom.js 48-57 (371-380)
On(target, event, cb) ==
  LET t == Shifted(target)
      el == GetEl(t, DOC)
  IN  /\ listeners' =
           IF el # NULL THEN AddEventListener(Dom, el, event, cb).listeners
           ELSE listeners
      /\ call' = Call("on", target, <<event, cb>>, el, {}, RetNode(el), FALSE,
                      GetWarns(t, DOC), <<>>)
      /\ UNCHANGED <<variant, dom, expando>>

\* node.dispatchEvent(new CustomEvent(evt)): the event does not bubble, so
\* the listeners registered on the node itself for that type run
DispatchEvent(node, evt) ==
  [tgt |-> node, ev |-> evt,
   ran |-> {l.cb : l \in {m \in listeners : m.tgt = node /\ m.ev = evt}}]

\* kingdom.js 244-250 (495-501): target.dispatchEvent is called on the
\* argument as passed; a string has no dispatchEvent (TypeError)
Dispatch(target, evt) ==
  LET t == Shifted(target)
  IN  IF IsString(t) THEN Raise("dispatch", target, <<evt>>, 0)
      ELSE /\ call' = Call("dispatch", target, <<evt>>, t.ref, {}, RetUndef,
                           FALSE, 0, <<DispatchEvent(t.ref, evt)>>)
           /\ UNCHANGED <<variant, dom, listeners, expando>>

InitEvent == InitVis

NextEvent ==
  \/ \E t \in EventTargets, e \in Events, cb \in Callbacks : On(t, e, cb)
  \/ \E t \in EventTargets, e \in Events : Dispatch(t, e)

SpecEvent == InitEvent /\ [][NextEvent]_vars

\* ----------------------------------------------------------------- C10
\* the node the claim has the event fired on
DispatchTargetClaimed(target) ==
  CASE target = Omitted -> WINDOW
    [] IsString(target) -> QuerySelector(target, DOC)
    [] OTHER -> target.ref

FiredOn(c, node) ==
  /\ ~c.threw
  /\ Len(c.log) = 1
  /\ c.log[1].tgt = node /\ c.log[1].ev = c.args[1]

\* C10: dispatch(target, eventName) fires the event on the first node
\* matching a selector string, on the node given by reference, and on the
\* global scope when the target is left out.
C10_DispatchEveryTargetForm ==
  [][ (call'.op = "dispatch" /\ DispatchTargetClaimed(call'.target) # NULL)
        => FiredOn(call', DispatchTargetClaimed(call'.target)) ]_vars

\* the same of node references and the omitted target alone
C10_DispatchNodeOrGlobal ==
  [][ (call'.op = "dispatch" /\ ~IsString(call'.target))
        => FiredOn(call', DispatchTargetClaimed(call'.target)) ]_vars

\* an event fired on a node on which a listener for it was registered
C10_DispatchReached ==
  /\ call.op = "dispatch" /\ call.target = Ref(FirstFree) /\ ~call.threw
  /\ call.log[1].ran = {"f"}

\* ----------------------------------------------------------------- C11
\* the listener an on call asks for, on node n
Asked(c, n) == [tgt |-> n, ev |-> c.args[1], cb |-> c.args[2]]

\* the node the target of an on call stands for (NULL: nothing matches)
OnTargetClaimed(target) ==
  CASE target = Omitted -> WINDOW
    [] IsString(target) -> QuerySelector(target, DOC)
    [] OTHER -> target.ref

\* a resolved target: the listener is registered on it, it is returned
OnRegisters ==
  LET n == OnTargetClaimed(call'.target)
  IN  n # NULL =>
        /\ ~call'.threw
        /\ listeners' = listeners \cup {Asked(call', n)}
        /\ call'.ret = RetNode(n)

\* an unresolved target: nothing is registered, nothing is raised, and the
\* call returns a value of the given kind
OnSkips(kind) ==
  OnTargetClaimed(call'.target) = NULL =>
    /\ ~call'.threw
    /\ listeners' = listeners
    /\ call'.ret.kind = kind

\* an event delivered to a node runs every callback registered on it for
\* that event
Delivers ==
  (call'.op = "dispatch" /\ ~call'.threw) =>
    \A l \in listeners :
      (l.tgt = call'.log[1].tgt /\ l.ev = call'.log[1].ev)
        => l.cb \in call'.log[1].ran

\* C11 as stated: on registers the callback on the resolved node and returns
\* the node, a later delivery runs the callback, two arguments register on
\* the global scope, and a selector matching nothing registers nothing,
\* raises nothing and returns undefined.
C11_OnReturnsUndefined ==
  [][ /\ call'.op = "on" => (OnRegisters /\ OnSkips("undef") /\ UNCHANGED dom)
      /\ Delivers ]_vars

\* C11: the same, except that a selector matching nothing makes on return
\* null (what querySelector gave get), after one console.warn.
C11_OnReturnsNull ==
  [][ /\ call'.op = "on" =>
           /\ OnRegisters /\ OnSkips("null") /\ UNCHANGED dom
           /\ call'.warned =
                IF OnTargetClaimed(call'.target) = NULL THEN 1 ELSE 0
      /\ Delivers ]_vars

\* on('#nope', 'ping', f) returned null while a listener registered through
\* the two-argument form stays on the global scope
C11_Witness ==
  /\ call.op = "on" /\ call.target = Sel("id", "nope") /\ ~call.threw
  /\ call.ret.kind = "null" /\ call.warned = 1
  /\ [tgt |-> WINDOW, ev |-> "ping", cb |-> "f"] \in listeners

\* ----------------------------------------------------------------- C12
RemoveOf(c) == c.op = "remove"

\* a remove whose target does not resolve to an attached node
RemoveUnresolved(c) ==
  RemoveOf(c) /\ IsString(c.target) /\ MatchesInDoc(c.target) = {}
RemoveDetached(c) ==
  /\ RemoveOf(c) /\ ~IsString(c.target) /\ c.target.ref # NULL
  /\ parent[c.target.ref] = NULL

\* C12: remove(target) never raises: a selector matching nothing is
\* reported by the diagnostic alone and leaves the tree unchanged, and a
\* reference to an already detached node makes the call a no-op.
C12_RemoveNeverRaises ==
  [][ /\ RemoveOf(call') => ~call'.threw
      /\ RemoveUnresolved(call') => (call'.warned = 1 /\ UNCHANGED dom)
      /\ RemoveDetached(call') => UNCHANGED dom ]_vars

\* the part that holds: the tree is unchanged in both cases, a selector
\* matching nothing is reported, a detached reference raises nothing
C12_RemoveLeavesTree ==
  [][ /\ RemoveUnresolved(call') => (call'.warned = 1 /\ UNCHANGED dom)
      /\ RemoveDetached(call') => (~call'.threw /\ UNCHANGED dom) ]_vars

\* remove('#x') a second time, after the first detached the node
C12_RemoveAgainReached ==
  /\ RemoveOf(call) /\ call.target = Sel("id", "x") /\ call.threw
  /\ parent[FirstFree] = NULL

\* ----------------------------------------------------------------- C15
ExistsByRef(c) ==
  c.op = "exists" /\ ~IsString(c.target) /\ c.target.ref # NULL
RemoveByRef(c) == OkCall(c, "remove") /\ ~IsString(c.target)

C15_RemovedByReference ==
  /\ RemoveByRef(call) /\ call.target = Ref(FirstFree)
  /\ parent[FirstFree] = NULL
  /\ ~ExistsVal(Sel("id", "x"), DOC) /\ ExistsVal(Ref(FirstFree), DOC)

\* ================================================================ setStyle
\* the style argument: a property name with a value, or an object of
\* properties (NoVal: the object has no such key)
StyleProp(p, v) ==
  [kind |-> "prop", p |-> p, v |-> v, map |-> [q \in StyleProps |-> NoVal]]
StyleObject(m) == [kind |-> "object", p |-> "", v |-> "", map |-> m]

\* kingdom.js 174-175 (440-441): Object.assign(el.style, style) for an
\* object, el.style[style] = value otherwise
ApplyStyle(st, a) ==
  IF a.kind = "object"
  THEN [q \in StyleProps |-> IF a.map[q] # NoVal THEN a.map[q] ELSE st[q]]
  ELSE [st EXCEPT ![a.p] = a.v]

\* kingdom.js 172-176 (438-442): no return statement
SetStyle(target, a) ==
  LET el == GetEl(target, DOC)
      w == GetWarns(target, DOC)
  IN  IF el \notin Elements THEN Raise("setStyle", target, <<a>>, w)
      ELSE /\ style' = [style EXCEPT ![el] = ApplyStyle(@, a)]
           /\ call' = Call("setStyle", target, <<a>>, el, {}, RetUndef, FALSE,
                           w, <<>>)
           /\ UNCHANGED <<variant, nextId, tag, attr, classes, tree, value,
                          checked, listeners, expando>>

StyleArgs ==
  {StyleProp("display", "none"), StyleProp("display", "block"),
   StyleObject([q \in StyleProps |->
                  IF q = "color" THEN "red" ELSE NoVal]),
   StyleObject([q \in StyleProps |->
                  IF q = "color" THEN "blue" ELSE "none"])}

\* a selector, a node, and what a call without a return value hands on
\* when its result is used as the next target
ChainTargets ==
  {Sel("id", "x"), Sel("id", "nope"), Ref(FirstFree + 2), Ref(NULL)}

InitStyle == InitVis

NextStyle ==
  \/ \E t \in ChainTargets, f \in Forces : Show(t, f)
  \/ \E t \in ChainTargets : Hide(t)
  \/ \E t \in ChainTargets, a \in StyleArgs : SetStyle(t, a)

SpecStyle == InitStyle /\ [][NextStyle]_vars

\* ----------------------------------------------------------------- C14
Chained(c) == c.op \in {"show", "hide", "setStyle"} /\ ~c.threw

\* C14: show, hide and setStyle return the resolved target element, so that
\* the result of a call can be the target of the next call.
C14_ReturnTarget ==
  [][ Chained(call') =>
        (call'.el # NULL /\ call'.ret = RetNode(call'.el)) ]_vars

\* what the functions do instead: they act on the resolved element and
\* return undefined
C14_ReturnUndefined ==
  [][ Chained(call') => (call'.el # NULL /\ call'.ret = RetUndef) ]_vars

\* setStyle('#x', {color: 'blue', display: 'none'}) has set both properties
\* and returned undefined
C14_SetStyleReached ==
  /\ Chained(call) /\ call.op = "setStyle" /\ call.target = Sel("id", "x")
  /\ style[FirstFree]["color"] = "blue" /\ style[FirstFree]["display"] = "none"
  /\ call.ret = RetUndef

\* ======================================================================= $
\* kingdom.js 7 (349): the initializer of const el reads el itself when the
\* target is no string.  Under const semantics that read raises a
\* ReferenceError; in a build that lowers const to var it yields undefined
\* and the following el.on raises a TypeError.  Either way the call raises.
DollarEl(target) ==
  IF IsString(target) THEN QuerySelector(target, DOC) ELSE NULL

DollarThrows(target) == DollarEl(target) = NULL

\* kingdom.js 6-14 (348-356): no diagnostic (get is not used); el.on is
\* installed unless the element has one
Dollar(target) ==
  LET el == DollarEl(target)
  IN  IF DollarThrows(target) THEN Raise("$", target, <<>>, 0)
      ELSE /\ expando' = [expando EXCEPT ![el] = @ \cup {"on"}]
           /\ call' = Call("$", target, <<>>, el, expando[el], RetNode(el),
                           FALSE, 0, <<>>)
           /\ UNCHANGED <<variant, dom, listeners>>

\* kingdom.js 9-11 (351-353): the installed method, el.on(event, cb)
ElOn(el, event, cb) ==
  /\ "on" \in expando[el]
  /\ listeners' = AddEventListener(Dom, el, event, cb).listeners
  /\ call' = Call("el.on", Ref(el), <<event, cb>>, el, {}, RetUndef, FALSE, 0,
                  <<>>)
  /\ UNCHANGED <<variant, dom, expando>>

InitDollar == InitVis

NextDollar ==
  \/ \E t \in Targets : Dollar(t)
  \/ \E n \in Pool, e \in Events, cb \in Callbacks : ElOn(n, e, cb)

SpecDollar == InitDollar /\ [][NextDollar]_vars

\* ----------------------------------------------------------------- C13
\* the element the claim has $ return
DollarClaimed(target) ==
  IF IsString(target) THEN QuerySelector(target, DOC) ELSE target.ref

DollarReturns ==
  LET n == DollarClaimed(call'.target)
  IN  /\ ~call'.threw
      /\ call'.ret = RetNode(n)
      /\ "on" \in expando'[n]
      /\ UNCHANGED <<dom, listeners>>

ElOnRegisters ==
  call'.op = "el.on" =>
    listeners' = listeners
      \cup {[tgt |-> call'.el, ev |-> call'.args[1], cb |-> call'.args[2]]}

\* C13: $(target) returns the first element matching a selector, and the
\* element itself when given an element; the element returned carries an
\* on(event, cb) method that registers cb for event on it.
C13_DollarSelectorOrElement ==
  [][ /\ (call'.op = "$" /\ DollarClaimed(call'.target) # NULL)
          => DollarReturns
      /\ ElOnRegisters ]_vars

\* the same of selector strings alone
C13_DollarSelector ==
  [][ /\ (call'.op = "$" /\ IsString(call'.target)
            /\ DollarClaimed(call'.target) # NULL) => DollarReturns
      /\ ElOnRegisters ]_vars

\* the method $('#x') installed has registered a listener on the element
C13_ElOnReached ==
  /\ call.op = "el.on" /\ call.el = FirstFree
  /\ [tgt |-> FirstFree, ev |-> "ping", cb |-> "f"] \in listeners

====
